---- MODULE Spec2Model ----
(***************************************************************************)
(* State-machine model of fizz/tool/FizzServerCommand.cpp: the acceptor    *)
(* (FizzServerAcceptor), the per-connection handler (FizzExampleServer     *)
(* and its subclass FizzHTTPServer), the key-log glue and the HTTP probe.  *)
(* The folly/fizz transports are the environment: they deliver the         *)
(* callbacks the handler overrides, one at a time, on the event-base       *)
(* thread.                                                                 *)
(***************************************************************************)
EXTENDS Integers, Sequences, FiniteSets, TLC

\* ------------------------------------------------------------------ bounds
MaxConns == 2          \* connections the environment offers
MaxInputs == 3         \* secret events and read callbacks the environment delivers

\* --------------------------------------------------------------- constants
\* the length of the prefix the HTTP probe compares (strncmp(.., 5), >= 5)
PrefixLen == 5

VARIABLES
  args,          \* the parsed command line: loop, http, keylog, fallback, ech
  pc,            \* position in fizzServerCommand after the acceptor is built
  evb,           \* the event loop: "idle", "running", "terminating", "exited"
  loop_,         \* FizzServerAcceptor::loop_
  http_,         \* FizzServerAcceptor::http_
  keyLogger_,    \* FizzServerAcceptor::keyLogger_ (TRUE: a writer is set)
  ctx_,          \* FizzServerAcceptor::ctx_, the shared FizzServerContext
  sslCtx_,       \* FizzServerAcceptor::sslCtx_ (TRUE: an SSLContext exists)
  socket_,       \* FizzServerAcceptor::socket_: "accepting", "paused", "released"
  cb_,           \* FizzServerAcceptor::cb_, the active handler
  inputHandler_, \* FizzServerAcceptor::inputHandler_ (TRUE: present)
  transport_,    \* FizzExampleServer::transport_, the native slot
  sslSocket_,    \* FizzExampleServer::sslSocket_, the legacy slot
  connected_,    \* FizzExampleServer::connected_
  secrets,       \* SecretCollector's optionals, label -> 0 (unset) or a secret
  requestBuf_,   \* FizzHTTPServer::requestBuf_, the bytes of the chain in order
  keyLog,        \* the lines the KeyLogWriter has appended, in order
  arrived,       \* history: the secret events delivered, in arrival order
  arrivals,      \* history: the buffers read by the active handler, in order
  nextConn,      \* history: number of connections accepted so far
  events,        \* history: counters of the callbacks delivered
  doneCalls,     \* history: per connection, the calls of done() it made
  last,          \* history: what the last step did
  cmd,           \* the options of the command line that name files and modes
  env,           \* history: what the files and libraries answered at startup
  serverContext, \* fizzServerCommand's serverContext and what it was given
  rc             \* what fizzServerCommand returned ("none": it has not)

vars == <<args, pc, evb, loop_, http_, keyLogger_, ctx_, sslCtx_, socket_, cb_,
          inputHandler_, transport_, sslSocket_, connected_, secrets,
          requestBuf_, keyLog, arrived, arrivals, nextConn, events,
          doneCalls, last, cmd, env, serverContext, rc>>

\* what the startup leaves behind for the running acceptor
startupVars == <<cmd, env, serverContext>>
configVars == <<args, loop_, ctx_, sslCtx_, startupVars>>
handlerVars == <<transport_, sslSocket_, connected_, secrets, requestBuf_>>

\* ------------------------------------------------------------------- data
ConnIds == 1..MaxConns

\* the secret labels SecretCollector keeps (one optional each)
Labels == {"external_psk_binder", "resumption_psk_binder", "early_exporter",
           "client_early_traffic", "client_handshake_traffic",
           "server_handshake_traffic", "exporter_master", "resumption_master",
           "client_traffic_0", "server_traffic_0"}

Unset == 0

\* the bytes of the k-th secret the engine derives
SecretOf(k) == k

\* the labels the environment's engine derives secrets for.  While the
\* handshake runs: two of the logged labels and one that is not logged; once
\* it is established: the resumption secret of a post-handshake ticket.
Derived(hs) ==
  IF hs = "handshaking"
    THEN {"client_early_traffic", "early_exporter", "server_handshake_traffic"}
    ELSE {"resumption_master"}

\* the labels handshakeSuccessLog hands to writeKeyLog, in statement order
LogOrder == <<"client_early_traffic", "client_handshake_traffic",
              "server_handshake_traffic", "exporter_master",
              "client_traffic_0", "server_traffic_0">>

\* the KeyLogWriter::Label each of them is written under
KeyLogLabel(l) ==
  CASE l = "client_early_traffic"     -> "CLIENT_EARLY_TRAFFIC_SECRET"
    [] l = "client_handshake_traffic" -> "CLIENT_HANDSHAKE_TRAFFIC_SECRET"
    [] l = "server_handshake_traffic" -> "SERVER_HANDSHAKE_TRAFFIC_SECRET"
    [] l = "exporter_master"          -> "EXPORTER_SECRET"
    [] l = "client_traffic_0"         -> "CLIENT_TRAFFIC_SECRET_0"
    [] l = "server_traffic_0"         -> "SERVER_TRAFFIC_SECRET_0"

NoSecrets == [l \in Labels |-> Unset]

\* the descriptor of the socket accepted as connection c, and the client
\* random of its hello
FdOf(c) == 10 + c
RandomOf(c) == 100 + c

\* whether the client of connection c sends an encrypted client hello: the
\* first one does, the next one does not
ClientEch(c) == c % 2 = 1

NullCtx == [set |-> FALSE, fallback |-> FALSE, ech |-> FALSE]

\* an empty shared_ptr<AsyncFizzServer>
NullTransport ==
  [present |-> FALSE, fd |-> 0, hs |-> "none", readCB |-> FALSE,
   secretCB |-> FALSE, closing |-> FALSE, ctx |-> NullCtx, random |-> 0,
   clientEch |-> FALSE]

\* an empty AsyncSSLSocket::UniquePtr
NullSslSocket ==
  [present |-> FALSE, fd |-> 0, hs |-> "none", readCB |-> FALSE,
   closing |-> FALSE, ctx |-> FALSE, preReceived |-> FALSE]

\* an empty unique_ptr<HandshakeCallback>
NullCb == [present |-> FALSE, conn |-> 0, kind |-> "none"]

NoEvents == [reads |-> 0, secretEvents |-> 0, responses |-> 0, closes |-> 0,
             mismatches |-> 0, summaries |-> 0]

\* no response written
NoResponse == [status |-> "", contentType |-> "", contentLength |-> 0,
               body |-> ""]

\* what a step did; every step starts from this record.  pre is which slot
\* was populated when the step began, text the summary lines it computed,
\* trace what each statement of the fallback found when it ran
Step(op, c) ==
  [op |-> op, conn |-> c, summary |-> "none", wrote |-> "none",
   closed |-> "none", closeNow |-> FALSE, done |-> 0, noop |-> 0,
   hadNative |-> FALSE, nativeAtDone |-> FALSE, legacyAtDone |-> FALSE,
   replaced |-> FALSE, compared |-> FALSE, matched |-> FALSE, lines |-> 0,
   req |-> <<>>, chunks |-> <<>>, logged |-> FALSE,
   pre |-> [native |-> transport_.present, legacy |-> sslSocket_.present],
   text |-> <<>>, response |-> NoResponse, trace |-> <<>>]

\* the bytes the environment sends; NUL is the zero byte
GetPrefix == <<"G", "E", "T", " ", "/">>
ChunkGE == <<"G", "E">>
ChunkRest ==
  <<"T", " ", "/", " ", "H", "T", "T", "P", "/", "1", ".", "1", "\r", "\n">>
Chunks ==
  { ChunkGE,
    ChunkRest,
    <<"G", "E", "T", " ", "/">>,
    <<"g", "e", "t", " ", "/", "x">> }

\* ------------------------------------------------------ fizzServerCommand
\* the command lines whose startup reaches the acceptor's construction
Args == [loop : BOOLEAN, http : BOOLEAN, keylog : BOOLEAN,
         fallback : BOOLEAN, ech : BOOLEAN]

\* the FizzServerContext built from the arguments
ServerContext(a) == [set |-> TRUE, fallback |-> a.fallback, ech |-> a.ech]

\* mutant: the legacy SSLContext is never created
SslContextMissing(a) == FALSE

\* the legacy SSLContext: created only under -fallback
SslContext(a) == a.fallback

envVars == <<keyLog, arrived, arrivals, nextConn, events, doneCalls>>

\* acceptor.setKeyLogWriter(...) when -keylog was given
setKeyLogWriter ==
  /\ pc = "constructed"
  /\ pc' = "keylog"
  /\ keyLogger_' = args.keylog
  /\ last' = Step("setKeyLogWriter", 0)
  /\ UNCHANGED <<configVars, rc, evb, http_, socket_, cb_, inputHandler_,
                 handlerVars, envVars>>

\* acceptor.setHttpEnabled(http)
setHttpEnabled ==
  /\ pc = "keylog"
  /\ pc' = "http"
  /\ http_' = args.http
  /\ last' = Step("setHttpEnabled", 0)
  /\ UNCHANGED <<configVars, rc, evb, keyLogger_, socket_, cb_, inputHandler_,
                 handlerVars, envVars>>

\* mutant: the loop is entered right after the acceptor is constructed
LoopEntryAtConstruction == "constructed"

\* where fizzServerCommand calls evb.loop(): after both setters
LoopEntry == "http"

\* evb.loop() is entered
evbLoop ==
  /\ pc = LoopEntry
  /\ pc' = "loop"
  /\ evb' = "running"
  /\ last' = Step("evbLoop", 0)
  /\ UNCHANGED <<configVars, rc, http_, keyLogger_, socket_, cb_, inputHandler_,
                 handlerVars, envVars>>

\* evb.loop() returns: termination was requested, or nothing is registered
\* with the event base any more; fizzServerCommand then returns 0
evbLoopReturns ==
  /\ \/ evb = "terminating"
     \/ evb = "running" /\ socket_ = "released" /\ ~cb_.present
  /\ evb' = "exited"
  /\ pc' = "returned"
  /\ rc' = "0"
  /\ last' = Step("evbLoopReturns", 0)
  /\ UNCHANGED <<configVars, http_, keyLogger_, socket_, cb_, inputHandler_,
                 handlerVars, envVars>>

\* callbacks run only inside the loop
EvbLive == evb \in {"running", "terminating"}

\* ------------------------------------------------------ FizzServerAcceptor
\* the AsyncFizzServer built over the accepted descriptor, after accept(cb)
NewTransport(c, ctx) ==
  [present |-> TRUE, fd |-> FdOf(c), hs |-> "handshaking", readCB |-> FALSE,
   secretCB |-> TRUE, closing |-> FALSE, ctx |-> ctx, random |-> RandomOf(c),
   clientEch |-> ClientEch(c)]

\* mutant: the accept callback forgets to pause accepting
PauseAcceptingSkipped(s) == s

\* socket_->pauseAccepting()
PauseAccepting(s) == "paused"

\* http_ ? make_unique<FizzHTTPServer> : make_unique<FizzExampleServer>
MakeServerCb(http, c) ==
  [present |-> TRUE, conn |-> c, kind |-> IF http THEN "http" ELSE "example"]

\* mutant: the acceptor moves its legacy context into the first handler
ShareSslCtxMoved(s) == FALSE

\* sslCtx_ is handed to the handler by copy: the acceptor keeps its own
ShareSslCtx(s) == s

connectionAccepted ==
  /\ evb = "running"
  /\ socket_ = "accepting"
  /\ nextConn < MaxConns
  /\ LET c == nextConn + 1 IN
       /\ nextConn' = c
       /\ transport_' = NewTransport(c, ctx_)
       /\ sslSocket_' = NullSslSocket
       /\ connected_' = FALSE
       /\ secrets' = NoSecrets
       /\ requestBuf_' = <<>>
       /\ socket_' = PauseAccepting(socket_)
       /\ cb_' = MakeServerCb(http_, c)
       /\ inputHandler_' = IF ~http_ THEN TRUE ELSE inputHandler_
       /\ events' = [NoEvents EXCEPT !.reads = events.reads,
                                     !.secretEvents = events.secretEvents]
       /\ arrivals' = <<>>
       /\ last' = [Step("connectionAccepted", c) EXCEPT !.replaced = cb_.present]
  /\ sslCtx_' = ShareSslCtx(sslCtx_)
  /\ UNCHANGED <<args, loop_, ctx_, startupVars, rc, pc, evb, http_,
                 keyLogger_, keyLog, arrived, doneCalls>>

\* mutant: an accept error ends the loop whatever the loop flag
AcceptErrorEvbAlways(loop, e) == "terminating"

\* terminateLoopSoon() unless looping
AcceptErrorEvb(loop, e) == IF ~loop THEN "terminating" ELSE e

acceptError ==
  /\ evb = "running"
  /\ socket_ = "accepting"
  /\ evb' = AcceptErrorEvb(loop_, evb)
  /\ last' = [Step("acceptError", 0) EXCEPT !.logged = TRUE]
  /\ UNCHANGED <<configVars, rc, pc, http_, keyLogger_, socket_, cb_,
                 inputHandler_, handlerVars, envVars>>

\* mutant: done() re-arms accepting whatever the loop flag
DoneSocketRearms(loop, s) == "accepting"

\* mutant: done() releases the listening socket whatever the loop flag
DoneSocketReleases(loop, s) == "released"

\* done(): loop_ ? socket_->startAccepting() : socket_.reset()
DoneSocket(loop, s) == IF loop THEN "accepting" ELSE "released"

\* writeKeyLog: forwards to the writer only when one is set
WriteKeyLog(kl, log, line) == IF kl THEN Append(log, line) ELSE log

\* ------------------------------------------------------- FizzExampleServer
\* finish(): the test `transport_ || sslSocket_`
FinishActs(t, s) == t.present \/ s.present

\* mutant: finish() copies transport_ instead of moving it out
MoveTransportCopies(t) == t

\* finish(): what transport_ holds after `std::move(transport_)`
MoveTransport(t) == NullTransport

\* finish(): `sslSocket_ = nullptr`
ResetSslSocket(s) == NullSslSocket

\* finish(): `if (transport) transport->closeNow()`
ClosesNow(t) == t.present

\* finish(), with everything it calls.  closeNow() and the destruction of
\* the legacy socket may deliver a pending callback (handshake error, EOF)
\* synchronously; that callback calls finish() again (reentrant).  done()
\* destroys the handler, so its fields are gone afterwards.
Finish(st, reentrant) ==
  LET acts == FinishActs(transport_, sslSocket_)
      t1 == MoveTransport(transport_)
      s1 == ResetSslSocket(sslSocket_)
      nested == acts /\ reentrant
      nestedActs == nested /\ FinishActs(t1, s1)
      nDone == IF acts THEN (IF nestedActs THEN 2 ELSE 1) ELSE 0
      nNoop == IF acts THEN (IF nested /\ ~nestedActs THEN 1 ELSE 0) ELSE 1
  IN /\ last' = [st EXCEPT !.done = nDone, !.noop = nNoop,
                            !.hadNative = transport_.present,
                            !.closeNow = acts /\ ClosesNow(transport_),
                            !.nativeAtDone = acts /\ t1.present,
                            !.legacyAtDone = acts /\ s1.present]
     /\ IF acts
          THEN /\ cb_' = NullCb
               /\ inputHandler_' = FALSE
               /\ socket_' = DoneSocket(loop_, socket_)
               /\ transport_' = NullTransport
               /\ sslSocket_' = NullSslSocket
               /\ connected_' = FALSE
               /\ secrets' = NoSecrets
               /\ requestBuf_' = <<>>
               /\ arrivals' = <<>>
               /\ doneCalls' = [doneCalls EXCEPT ![cb_.conn] = @ + nDone]
          ELSE UNCHANGED <<cb_, inputHandler_, socket_, handlerVars, arrivals,
                          doneCalls>>

\* may the closed transport call back into the handler while it is torn
\* down: only a transport with a pending callback does
MayReenter == {FALSE} \cup
  {b \in {TRUE} :
     \/ transport_.present /\ (transport_.hs = "handshaking" \/ transport_.readCB)
     \/ sslSocket_.present /\ (sslSocket_.hs = "handshaking" \/ sslSocket_.readCB)}

\* handshakeSuccessLog(): the writeKeyLog calls, in statement order, one per
\* optional that is set; i is the index of the next statement
RECURSIVE LogSecrets(_, _, _, _, _)
LogSecrets(kl, log, t, sec, i) ==
  IF i > Len(LogOrder) THEN log
  ELSE LET l == LogOrder[i]
           line == [label |-> KeyLogLabel(l), random |-> t.random,
                    secret |-> sec[l]]
       IN LogSecrets(kl,
                     IF sec[l] # Unset THEN WriteKeyLog(kl, log, line) ELSE log,
                     t, sec, i + 1)

\* handshakeSuccessLog(): the key log after the call
HandshakeSuccessLog(kl, log, t, sec) == LogSecrets(kl, log, t, sec, 1)

\* the text the TLS libraries render for the negotiated parameters of a
\* session; this file only places it after its captions
NativeParams ==
  [version |-> "TLSv1.3", cipher |-> "TLS_AES_128_GCM_SHA256",
   group |-> "x25519", sigScheme |-> "ecdsa_secp256r1_sha256",
   pskType |-> "NotAttempted", pskMode |-> "(none)",
   keyExchangeType |-> "OneRtt", earlyDataType |-> "NotAttempted",
   serverIdentity |-> "fizz-test-selfsign", clientIdentity |-> "(none)",
   serverCertCompAlgo |-> "(none)", alpn |-> "(none)"]
LegacyParams ==
  [version |-> "TLSv1.2", cipher |-> "ECDHE-ECDSA-AES128-GCM-SHA256",
   sigAlg |-> "ecdsa-with-SHA256", serverIdentity |-> "fizz-test-selfsign",
   clientIdentity |-> "(none)"]

\* secretStr(optional): the text of a stored secret, "(none)" for an unset one
SecretStr(v) == IF v = Unset THEN "(none)" ELSE ToString(v)

\* mutant: the line reports whether this client's hello was encrypted
EchLineOfClient(t) ==
  IF t.clientEch THEN "Encrypted client hello (ECH) is successful." ELSE ""

\* the last line of handshakeSuccessLog(): chosen by whether the server
\* context of the transport holds an ECH decrypter
EchLine(t) ==
  IF t.ctx.ech THEN "Encrypted client hello (ECH) is successful." ELSE ""

\* handshakeSuccessLog(): the lines it returns
HandshakeSuccessLines(t, sec) ==
  << "  TLS Version: " \o NativeParams.version,
     "  Cipher Suite:  " \o NativeParams.cipher,
     "  Named Group: " \o NativeParams.group,
     "  Signature Scheme: " \o NativeParams.sigScheme,
     "  PSK: " \o NativeParams.pskType,
     "  PSK Mode: " \o NativeParams.pskMode,
     "  Key Exchange Type: " \o NativeParams.keyExchangeType,
     "  Early: " \o NativeParams.earlyDataType,
     "  Server identity: " \o NativeParams.serverIdentity,
     "  Client Identity: " \o NativeParams.clientIdentity,
     "  Server Certificate Compression: " \o NativeParams.serverCertCompAlgo,
     "  ALPN: " \o NativeParams.alpn,
     "  Client Random: " \o ToString(t.random),
     "  Secrets:",
     "    External PSK Binder: " \o SecretStr(sec["external_psk_binder"]),
     "    Resumption PSK Binder: " \o SecretStr(sec["resumption_psk_binder"]),
     "    Early Exporter: " \o SecretStr(sec["early_exporter"]),
     "    Early Client Data: " \o SecretStr(sec["client_early_traffic"]),
     "    Client Handshake: " \o SecretStr(sec["client_handshake_traffic"]),
     "    Server Handshake: " \o SecretStr(sec["server_handshake_traffic"]),
     "    Exporter Master: " \o SecretStr(sec["exporter_master"]),
     "    Resumption Master: " \o SecretStr(sec["resumption_master"]),
     "    Client Traffic: " \o SecretStr(sec["client_traffic_0"]),
     "    Server Traffic: " \o SecretStr(sec["server_traffic_0"]),
     "" \o EchLine(t) >>

\* fallbackSuccessLog(): the lines it returns
FallbackSuccessLog(s) ==
  << "  TLS Version: " \o LegacyParams.version,
     "  Cipher:  " \o LegacyParams.cipher,
     "  Signature Algorithm: " \o LegacyParams.sigAlg,
     "  Server identity: " \o LegacyParams.serverIdentity,
     "  Client Identity: " \o LegacyParams.clientIdentity >>

\* folly::join(sep, lines, out)
RECURSIVE Join(_, _)
Join(sep, lines) ==
  IF lines = <<>> THEN ""
  ELSE IF Len(lines) = 1 THEN lines[1]
  ELSE lines[1] \o sep \o Join(sep, Tail(lines))

NativeHeader == "Fizz HTTP Server\n\n"
FallbackHeader == "Fizz HTTP Server (Fallback)\n\n"

\* respondHandshakeSuccess()
RespondHandshakeSuccess(t, sec) ==
  NativeHeader \o Join("\n", HandshakeSuccessLines(t, sec))

\* respondFallbackSuccess()
RespondFallbackSuccess(s) == FallbackHeader \o Join("\n", FallbackSuccessLog(s))

\* mutant: the length is taken of the summary, before the header is put first
ContentLengthOfSummary(body) == Len(body) - Len(NativeHeader)

\* responseBody.length(), the value formatted after "Content-Length: "
ContentLength(body) == Len(body)

\* format("HTTP/1.0 200 OK\r\n" "Content-Type: text/plain\r\n"
\*        "Content-Length: {}\r\n\r\n" "{}", length, body)
FormatResponse(body) ==
  [status |-> "HTTP/1.0 200 OK", contentType |-> "text/plain",
   contentLength |-> ContentLength(body), body |-> body]

\* a handler exists and the loop delivers its callbacks
Active == EvbLive /\ cb_.present

\* mutant: the success callback leaves connected_ as it was
MarkConnectedSkipped(c) == c

\* fizzHandshakeSuccess: `connected_ = true`
MarkConnected(c) == TRUE

\* fizzHandshakeSuccess: setReadCB(this), connected_ = true,
\* printHandshakeSuccess()
fizzHandshakeSuccess ==
  /\ Active
  /\ transport_.present /\ transport_.hs = "handshaking"
  /\ transport_' = [transport_ EXCEPT !.hs = "established", !.readCB = TRUE]
  /\ connected_' = MarkConnected(connected_)
  /\ keyLog' = HandshakeSuccessLog(keyLogger_, keyLog, transport_, secrets)
  /\ events' = [events EXCEPT !.summaries = @ + 1]
  /\ last' = [Step("fizzHandshakeSuccess", cb_.conn) EXCEPT
                 !.summary = "native", !.lines = Len(keyLog') - Len(keyLog),
                 !.text = HandshakeSuccessLines(transport_, secrets)]
  /\ UNCHANGED <<configVars, rc, pc, evb, http_, keyLogger_, socket_, cb_,
                 inputHandler_, sslSocket_, secrets, requestBuf_, arrived,
                 arrivals, nextConn, doneCalls>>

\* fizzHandshakeError: finish()
fizzHandshakeError ==
  /\ Active
  /\ transport_.present /\ transport_.hs = "handshaking"
  /\ \E r \in MayReenter : Finish(Step("fizzHandshakeError", cb_.conn), r)
  /\ UNCHANGED <<configVars, rc, pc, evb, http_, keyLogger_, keyLog, arrived,
                 nextConn, events>>

\* mutant: the fallback keeps the native transport
ResetTransportKeeps(t) == t

\* fizzHandshakeAttemptFallback: `transport_.reset()`
ResetTransport(t) == NullTransport

\* mutant: the legacy socket is built over another descriptor
NewSslSocketOtherFd(ctx, fd) ==
  [present |-> TRUE, fd |-> fd + 1, hs |-> "none", readCB |-> FALSE,
   closing |-> FALSE, ctx |-> ctx, preReceived |-> FALSE]

\* fizzHandshakeAttemptFallback: `new AsyncSSLSocket(sslCtx_, evb, fd)`, the
\* legacy socket as constructed over the detached descriptor
NewSslSocket(ctx, fd) ==
  [present |-> TRUE, fd |-> fd, hs |-> "none", readCB |-> FALSE,
   closing |-> FALSE, ctx |-> ctx, preReceived |-> FALSE]

\* mutant: the legacy handshake is started before the client hello is put back
FallbackOrderAcceptFirst ==
  <<"detachNetworkSocket", "reset", "AsyncSSLSocket", "sslAccept",
    "setPreReceivedData">>

\* fizzHandshakeAttemptFallback: its statements, in the order of the body
FallbackOrder ==
  <<"detachNetworkSocket", "reset", "AsyncSSLSocket", "setPreReceivedData",
    "sslAccept">>

\* the handler's locals and slots when it is entered: t and s the slots, fd
\* the local descriptor (0: none yet), hello the buffered client hello the
\* engine passed in
FallbackEntry(t, s) ==
  [t |-> t, s |-> s, fd |-> 0, hello |-> TRUE, trace |-> <<>>]

\* what a statement finds when it runs
Found(stmt, f) ==
  [stmt |-> stmt, native |-> f.t.present,
   attached |-> f.t.present /\ f.t.fd # 0, fd |-> f.fd,
   legacy |-> f.s.present, started |-> f.s.hs # "none",
   preReceived |-> f.s.preReceived, hello |-> f.hello]

\* one statement of fizzHandshakeAttemptFallback
FallbackStmt(stmt, f, ctx) ==
  LET g == [f EXCEPT !.trace = Append(f.trace, Found(stmt, f))] IN
  CASE stmt = "detachNetworkSocket" ->
         [g EXCEPT !.fd = f.t.fd, !.t = [f.t EXCEPT !.fd = 0]]
    [] stmt = "reset" -> [g EXCEPT !.t = ResetTransport(f.t)]
    [] stmt = "AsyncSSLSocket" -> [g EXCEPT !.s = NewSslSocket(ctx, f.fd)]
    [] stmt = "setPreReceivedData" ->
         [g EXCEPT !.s = [f.s EXCEPT !.preReceived = f.hello],
                   !.hello = FALSE]
    [] stmt = "sslAccept" -> [g EXCEPT !.s = [f.s EXCEPT !.hs = "handshaking"]]

\* the body of fizzHandshakeAttemptFallback from its i-th statement on
RECURSIVE RunFallback(_, _, _, _)
RunFallback(stmts, f, ctx, i) ==
  IF i > Len(stmts) THEN f
  ELSE RunFallback(stmts, FallbackStmt(stmts[i], f, ctx), ctx, i + 1)

\* the engine asks for the fallback while it reads the client hello (before
\* it derives any secret) and only when the context enables it
fizzHandshakeAttemptFallback ==
  /\ Active
  /\ transport_.present /\ transport_.hs = "handshaking"
  /\ transport_.ctx.fallback
  /\ secrets = NoSecrets
  /\ LET f == RunFallback(FallbackOrder, FallbackEntry(transport_, sslSocket_),
                          sslCtx_, 1)
     IN /\ transport_' = f.t
        /\ sslSocket_' = f.s
        /\ last' = [Step("fizzHandshakeAttemptFallback", cb_.conn) EXCEPT
                       !.trace = f.trace]
  /\ UNCHANGED <<configVars, rc, pc, evb, http_, keyLogger_, socket_, cb_,
                 inputHandler_, connected_, secrets, requestBuf_, envVars>>

\* handshakeSuc: setReadCB(this), connected_ = true, printFallbackSuccess()
handshakeSuc ==
  /\ Active
  /\ sslSocket_.present /\ sslSocket_.hs = "handshaking"
  /\ sslSocket_' = [sslSocket_ EXCEPT !.hs = "established", !.readCB = TRUE]
  /\ connected_' = TRUE
  /\ events' = [events EXCEPT !.summaries = @ + 1]
  /\ last' = [Step("handshakeSuc", cb_.conn) EXCEPT
                 !.summary = "legacy", !.text = FallbackSuccessLog(sslSocket_)]
  /\ UNCHANGED <<configVars, rc, pc, evb, http_, keyLogger_, socket_, cb_,
                 inputHandler_, transport_, secrets, requestBuf_, keyLog,
                 arrived, arrivals, nextConn, doneCalls>>

\* handshakeErr: finish()
handshakeErr ==
  /\ Active
  /\ sslSocket_.present /\ sslSocket_.hs = "handshaking"
  /\ \E r \in MayReenter : Finish(Step("handshakeErr", cb_.conn), r)
  /\ UNCHANGED <<configVars, rc, pc, evb, http_, keyLogger_, keyLog, arrived,
                 nextConn, events>>

\* a read callback is registered on the populated transport
ReadCBSet ==
  \/ transport_.present /\ transport_.readCB
  \/ sslSocket_.present /\ sslSocket_.readCB

\* readEOF: finish()
readEOF ==
  /\ Active
  /\ ReadCBSet
  /\ \E r \in MayReenter : Finish(Step("readEOF", cb_.conn), r)
  /\ UNCHANGED <<configVars, rc, pc, evb, http_, keyLogger_, keyLog, arrived,
                 nextConn, events>>

\* readErr: finish()
readErr ==
  /\ Active
  /\ ReadCBSet
  /\ \E r \in MayReenter : Finish(Step("readErr", cb_.conn), r)
  /\ UNCHANGED <<configVars, rc, pc, evb, http_, keyLogger_, keyLog, arrived,
                 nextConn, events>>

\* close(), called by the terminal input handler at end of input: finish()
close ==
  /\ Active
  /\ inputHandler_
  /\ \E r \in MayReenter : Finish(Step("close", cb_.conn), r)
  /\ UNCHANGED <<configVars, rc, pc, evb, http_, keyLogger_, keyLog, arrived,
                 nextConn, events>>

\* write(msg): to transport_ if set, else to sslSocket_ if set
WriteTarget(t, s) ==
  IF t.present THEN "native" ELSE IF s.present THEN "legacy" ELSE "none"

\* the terminal input handler passes a line of input on once connected()
write ==
  /\ Active
  /\ inputHandler_
  /\ connected_
  /\ last' = [Step("write", cb_.conn) EXCEPT
                 !.wrote = WriteTarget(transport_, sslSocket_)]
  /\ UNCHANGED <<configVars, rc, pc, evb, http_, keyLogger_, socket_, cb_,
                 inputHandler_, handlerVars, envVars>>

\* SecretCollector: an optional keeps the first secret stored under a label
StoreSecret(sec, l, v) == IF sec[l] = Unset THEN [sec EXCEPT ![l] = v] ELSE sec

\* a secret-derivation event of the native engine reaches the handler, which
\* was registered with setSecretCallback; the acceptor's key-log writer is
\* reached through writeKeyLog only, which this path does not call
secretAvailable ==
  /\ Active
  /\ transport_.present /\ transport_.secretCB /\ ~transport_.closing
  /\ events.reads + events.secretEvents < MaxInputs
  /\ \E l \in Derived(transport_.hs) :
       LET v == SecretOf(events.secretEvents + 1) IN
       /\ secrets' = StoreSecret(secrets, l, v)
       /\ arrived' = Append(arrived, [label |-> l, random |-> transport_.random,
                                      secret |-> v])
  /\ events' = [events EXCEPT !.secretEvents = @ + 1]
  /\ last' = Step("secretAvailable", cb_.conn)
  /\ UNCHANGED <<configVars, rc, pc, evb, http_, keyLogger_, socket_, cb_,
                 inputHandler_, transport_, sslSocket_, connected_,
                 requestBuf_, keyLog, arrivals, nextConn, doneCalls>>

\* data is delivered to a registered read callback until close() was called
\* on the transport
ReadReady ==
  \/ transport_.present /\ transport_.readCB /\ ~transport_.closing
  \/ sslSocket_.present /\ sslSocket_.readCB /\ ~sslSocket_.closing

\* FizzExampleServer::readBufferAvailable: prints the bytes
readBufferAvailable ==
  /\ Active
  /\ cb_.kind = "example"
  /\ ReadReady
  /\ events.reads + events.secretEvents < MaxInputs
  /\ events' = [events EXCEPT !.reads = @ + 1]
  /\ last' = Step("readBufferAvailable", cb_.conn)
  /\ UNCHANGED <<configVars, rc, pc, evb, http_, keyLogger_, socket_, cb_,
                 inputHandler_, handlerVars, keyLog, arrived, arrivals,
                 nextConn, doneCalls>>

\* ---------------------------------------------------------- FizzHTTPServer
NUL == "\\0"

\* strncmp(a, b, n) from position i on: 0 when equal
RECURSIVE Strncmp(_, _, _, _)
Strncmp(a, b, n, i) ==
  IF i > n THEN 0
  ELSE IF a[i] # b[i] THEN 1
  ELSE IF a[i] = NUL THEN 0
  ELSE Strncmp(a, b, n, i + 1)

\* mutant: the new buffer is linked in at the head of the chain
ChainPrepends(req, buf) == buf \o req

\* requestBuf_ after the arrival: the buffer itself, or the chain with the
\* new buffer linked in at its end
Chain(req, buf) == IF req = <<>> THEN buf ELSE req \o buf

\* computeChainDataLength() >= 5
LongEnough(req) == Len(req) >= PrefixLen

\* mutant: the prefix is compared without regard to case (strncasecmp)
UpperCase(ch) ==
  CASE ch = "g" -> "G" [] ch = "e" -> "E" [] ch = "t" -> "T" [] OTHER -> ch

IsGetAnyCase(req) ==
  Strncmp([i \in 1..Len(req) |-> UpperCase(req[i])], GetPrefix, PrefixLen, 1) = 0

\* the strncmp test against "GET /"
IsGet(req) == Strncmp(req, GetPrefix, PrefixLen, 1) = 0

\* mutant: a request that is not a GET is dropped from the buffer
AfterMismatchCleared(req) == <<>>

\* the mismatch branch only logs: requestBuf_ keeps the coalesced request
AfterMismatch(req) == req

\* mutant: the response is always built from the native transport
ResponseSlotNative(t) == "native"

\* the slot the response is built from, written to and closed
ResponseSlot(t) == IF t.present THEN "native" ELSE "legacy"

\* mutant: the response is written but the transport is not closed
CloseTransportSkipped(t) == t

\* transport_->close() after the response: the transport delivers no
\* further data to its read callback
CloseTransport(t) == [t EXCEPT !.closing = TRUE]

\* sslSocket_->close() after the response
CloseSslSocket(s) == [s EXCEPT !.closing = TRUE]

\* FizzHTTPServer::readBufferAvailable.  close() on the transport may
\* deliver readEOF at once (eof), which runs finish().
httpReadBufferAvailable ==
  /\ Active
  /\ cb_.kind = "http"
  /\ ReadReady
  /\ events.reads + events.secretEvents < MaxInputs
  /\ \E buf \in Chunks :
       LET req == Chain(requestBuf_, buf)
           st == [Step("httpReadBufferAvailable", cb_.conn) EXCEPT
                    !.req = req, !.chunks = Append(arrivals, buf)]
       IN IF LongEnough(req)
            THEN IF IsGet(req)
                   THEN LET slot == ResponseSlot(transport_)
                            log == IF slot = "native"
                                     THEN HandshakeSuccessLog(keyLogger_, keyLog,
                                                              transport_, secrets)
                                     ELSE keyLog
                            text == IF slot = "native"
                                      THEN HandshakeSuccessLines(transport_,
                                                                 secrets)
                                      ELSE FallbackSuccessLog(sslSocket_)
                            body == IF slot = "native"
                                      THEN RespondHandshakeSuccess(transport_,
                                                                   secrets)
                                      ELSE RespondFallbackSuccess(sslSocket_)
                            st2 == [st EXCEPT !.compared = TRUE, !.matched = TRUE,
                                              !.summary = slot, !.wrote = slot,
                                              !.closed = slot,
                                              !.lines = Len(log) - Len(keyLog),
                                              !.text = text,
                                              !.response = FormatResponse(body)]
                        IN /\ keyLog' = log
                           /\ events' = [events EXCEPT !.reads = @ + 1,
                                                       !.responses = @ + 1,
                                                       !.closes = @ + 1,
                                                       !.summaries = @ + 1]
                           /\ \E eof \in BOOLEAN :
                                IF eof
                                  THEN \E r \in MayReenter : Finish(st2, r)
                                  ELSE /\ requestBuf_' = req
                                       /\ arrivals' = Append(arrivals, buf)
                                       /\ transport_' =
                                            IF slot = "native"
                                              THEN CloseTransport(transport_)
                                              ELSE transport_
                                       /\ sslSocket_' =
                                            IF slot = "legacy"
                                              THEN CloseSslSocket(sslSocket_)
                                              ELSE sslSocket_
                                       /\ last' = st2
                                       /\ UNCHANGED <<cb_, inputHandler_, socket_,
                                                      connected_, secrets, doneCalls>>
                   ELSE /\ requestBuf_' = AfterMismatch(req)
                        /\ arrivals' = Append(arrivals, buf)
                        /\ events' = [events EXCEPT !.reads = @ + 1,
                                                    !.mismatches = @ + 1]
                        /\ last' = [st EXCEPT !.compared = TRUE]
                        /\ UNCHANGED <<cb_, inputHandler_, socket_, transport_,
                                       sslSocket_, connected_, secrets, keyLog,
                                       doneCalls>>
            ELSE /\ requestBuf_' = req
                 /\ arrivals' = Append(arrivals, buf)
                 /\ events' = [events EXCEPT !.reads = @ + 1]
                 /\ last' = st
                 /\ UNCHANGED <<cb_, inputHandler_, socket_, transport_,
                                sslSocket_, connected_, secrets, keyLog,
                                doneCalls>>
  /\ UNCHANGED <<configVars, rc, pc, evb, http_, keyLogger_, arrived, nextConn>>

\* ---------------------------------------------- fizzServerCommand: startup
\* the digits folly::hexlify writes, and the upper-case digits
\* folly::unhexlify reads as well
HexLower == <<"0", "1", "2", "3", "4", "5", "6", "7", "8", "9",
              "a", "b", "c", "d", "e", "f">>
HexUpper == <<"0", "1", "2", "3", "4", "5", "6", "7", "8", "9",
              "A", "B", "C", "D", "E", "F">>

IsHexDigit(ch) == \E i \in 1..Len(HexLower) : HexLower[i] = ch \/ HexUpper[i] = ch

\* the value of a hex digit
HexVal(ch) ==
  (CHOOSE i \in 1..Len(HexLower) : HexLower[i] = ch \/ HexUpper[i] = ch) - 1

\* folly::unhexlify: the bytes of a string of hex digits; it throws on an
\* odd length and on a character that is no hex digit
UnhexlifyOk(str) ==
  /\ Len(str) % 2 = 0
  /\ \A i \in 1..Len(str) : IsHexDigit(str[i])

Unhexlify(str) ==
  [i \in 1..(Len(str) \div 2) |->
     Len(HexLower) * HexVal(str[2 * i - 1]) + HexVal(str[2 * i])]

\* folly::hexlify: two lower-case digits per byte
Hexlify(bytes) ==
  [i \in 1..(2 * Len(bytes)) |->
     IF i % 2 = 1
       THEN HexLower[(bytes[(i + 1) \div 2] \div Len(HexLower)) + 1]
       ELSE HexLower[(bytes[i \div 2] % Len(HexLower)) + 1]]

\* a hex string with its letters in upper case, in lower case
ToUpper(str) == [i \in 1..Len(str) |->
                  IF IsHexDigit(str[i]) THEN HexUpper[HexVal(str[i]) + 1]
                                        ELSE str[i]]
ToLower(str) == [i \in 1..Len(str) |->
                  IF IsHexDigit(str[i]) THEN HexLower[HexVal(str[i]) + 1]
                                        ELSE str[i]]

\* setupDefaultDecrypter: the built-in key pair, as hex
DefaultPrivateKeyHex ==
  <<"8", "c", "4", "9", "0", "e", "5", "b", "0", "c", "7", "d", "b", "e",
    "0", "c", "6", "d", "2", "1", "9", "2", "4", "8", "4", "d", "2", "b",
    "7", "a", "0", "4", "2", "3", "b", "3", "b", "4", "5", "4", "4", "f",
    "2", "4", "8", "1", "0", "9", "5", "a", "9", "9", "d", "b", "f", "2",
    "3", "8", "f", "b", "3", "5", "0", "f">>
DefaultPublicKeyHex ==
  <<"8", "a", "0", "7", "5", "6", "3", "9", "4", "9", "f", "a", "c", "6",
    "2", "3", "2", "9", "3", "6", "e", "d", "6", "f", "3", "6", "c", "4",
    "f", "a", "7", "3", "5", "9", "3", "0", "e", "c", "d", "e", "a", "e",
    "f", "6", "7", "3", "4", "e", "3", "1", "4", "a", "e", "a", "c", "3",
    "5", "a", "5", "6", "f", "d", "0", "a">>

\* KeyType, and a key type outside it (a DSA key)
KeyTypes == {"RSA", "P256", "P384", "P521", "ED25519"}
OtherKeyType == "DSA"

\* hpke::KEMId: the four createKeyExchange builds and one it does not
CurveKEMs == {"secp256r1", "secp384r1", "secp521r1"}
SupportedKEMs == CurveKEMs \cup {"x25519"}
KEMIds == SupportedKEMs \cup {"x448"}

\* the curve of an elliptic-curve KEM id
CurveOf(kemId) ==
  CASE kemId = "secp256r1" -> "P256"
    [] kemId = "secp384r1" -> "P384"
    [] kemId = "secp521r1" -> "P521"

\* the options that name files and modes: TRUE when the option was given
Cmds == [cert : BOOLEAN, key : BOOLEAN, cred : BOOLEAN, requestcert : BOOLEAN,
         ca : BOOLEAN, echconfigs : BOOLEAN, echprivatekey : BOOLEAN]

\* a file as the startup finds it: unreadable, a PEM private key, or
\* whitespace-separated tokens
NoFile == [seen |-> FALSE, readable |-> FALSE, pem |-> FALSE, toks |-> <<>>]
Unreadable == [seen |-> TRUE, readable |-> FALSE, pem |-> FALSE, toks |-> <<>>]
PemFile == [seen |-> TRUE, readable |-> TRUE, pem |-> TRUE, toks |-> <<>>]
TokenFile(toks) ==
  [seen |-> TRUE, readable |-> TRUE, pem |-> FALSE, toks |-> toks]

\* the ECH private-key files the environment holds
EchKeyFiles ==
  { Unreadable,
    PemFile,
    TokenFile(<<DefaultPrivateKeyHex, DefaultPublicKeyHex>>),
    TokenFile(<<ToUpper(DefaultPrivateKeyHex), ToUpper(DefaultPublicKeyHex)>>),
    TokenFile(<<DefaultPublicKeyHex>>),
    TokenFile(<<<<"x", "y">>, DefaultPublicKeyHex>>) }

\* the KEM id a second config of the file names: another one than the first
OtherKem(k) == IF k = "x25519" THEN "secp256r1" ELSE "x25519"

\* the ECH configs file as readECHConfigsJson, parseECHConfigs and getKEMId
\* find it: kem is the kem_id of its first config, rest those of the
\* configs after it
NoConfigs ==
  [seen |-> FALSE, readable |-> FALSE, parses |-> FALSE, kem |-> "none",
   rest |-> <<>>]
EchConfigFiles ==
  {[seen |-> TRUE, readable |-> FALSE, parses |-> FALSE, kem |-> "none",
    rest |-> <<>>],
   [seen |-> TRUE, readable |-> TRUE, parses |-> FALSE, kem |-> "none",
    rest |-> <<>>]}
  \cup {[seen |-> TRUE, readable |-> TRUE, parses |-> TRUE, kem |-> k,
         rest |-> <<>>] : k \in KEMIds}
  \cup {[seen |-> TRUE, readable |-> TRUE, parses |-> TRUE, kem |-> k,
         rest |-> <<OtherKem(k)>>] : k \in KEMIds}

\* gotECHConfigs.value(): the configs of the file, each named by its KEM id
ParsedConfigs(configs) == <<configs.kem>> \o configs.rest

\* nothing was asked of the environment yet
NoEnv == [parse |-> "unseen", ca |-> "unseen", echConfigs |-> NoConfigs,
          echKey |-> NoFile, lib |-> "unseen", cert |-> "unseen",
          key |-> "unseen", cred |-> "unseen", keyType |-> "unseen"]

\* a key exchange: its group, its EVP key (curves) or raw key pair (x25519)
NoKex == [kind |-> "none", hasKey |-> FALSE, priv |-> <<>>, pub |-> <<>>]

\* an empty shared_ptr<ech::Decrypter>
NoDecrypter == [set |-> FALSE, params |-> <<>>]

\* make_shared<ech::ECHConfigManager>(): a decrypter with no config yet
NewDecrypter == [set |-> TRUE, params |-> <<>>]

\* decrypter->addDecryptionConfig(ech::DecrypterParams{config, kex})
AddDecryptionConfig(d, config, kex) ==
  [d EXCEPT !.params = Append(@, [config |-> config, kex |-> kex])]

\* mutant: a decrypter set on a context that has one is added to it
SetECHDecrypterAdds(old, new) ==
  IF old.set THEN [old EXCEPT !.params = @ \o new.params] ELSE new

\* serverContext->setECHDecrypter(d): the decrypter the context holds
\* afterwards
SetECHDecrypter(old, new) == new

\* the length in bytes of an x25519 key
X25519KeyLen == Len(Unhexlify(DefaultPrivateKeyHex))

\* mutant: the two lines of the key file are taken in the other order
SetKeyPairSwapped(privKeyStr, pubKeyStr) ==
  [kind |-> "x25519", hasKey |-> pubKeyStr # <<>>,
   priv |-> Unhexlify(pubKeyStr), pub |-> Unhexlify(privKeyStr)]

\* kex->setKeyPair(copyBuffer(unhexlify(privKeyStr)),
\*                 copyBuffer(unhexlify(pubKeyStr)))
SetKeyPair(privKeyStr, pubKeyStr) ==
  [kind |-> "x25519", hasKey |-> privKeyStr # <<>>,
   priv |-> Unhexlify(privKeyStr), pub |-> Unhexlify(pubKeyStr)]

\* setupDefaultDecrypter: the default config with the built-in key pair
SetupDefaultDecrypter ==
  AddDecryptionConfig(NewDecrypter, "default",
                      SetKeyPair(DefaultPrivateKeyHex, DefaultPublicKeyHex))

\* createKeyExchange's getPrivateKey: the key read from the file, a null
\* key when the file cannot be read; readPrivateKeyFromBuffer throws on
\* what is no PEM key
GetPrivateKey(file) ==
  IF file.readable THEN (IF file.pem THEN "key" ELSE "throws") ELSE "null"

\* `infile >> str`: the i-th whitespace-separated token, empty when the
\* stream failed or ran out
Token(file, i) ==
  IF ~file.readable THEN <<>>
  ELSE IF file.pem THEN <<"-", "-">>
  ELSE IF i <= Len(file.toks) THEN file.toks[i]
  ELSE <<>>

\* createKeyExchange.  lib is what the key exchange's setter does with a
\* null key or with a key of the wrong length: the source hands it over
\* unchecked, and the setter "accepts" or "throws".
CreateKeyExchange(kemId, file, lib) ==
  IF kemId \in CurveKEMs
    THEN LET privKey == GetPrivateKey(file) IN
         IF privKey = "throws" \/ (privKey = "null" /\ lib = "throws")
           THEN [status |-> "throws", kex |-> NoKex]
           ELSE [status |-> "ok",
                 kex |-> [kind |-> CurveOf(kemId), hasKey |-> privKey = "key",
                          priv |-> <<>>, pub |-> <<>>]]
  ELSE IF kemId = "x25519"
    THEN LET privKeyStr == Token(file, 1)
             pubKeyStr == Token(file, 2)
         IN IF ~UnhexlifyOk(privKeyStr) \/ ~UnhexlifyOk(pubKeyStr)
              THEN [status |-> "throws", kex |-> NoKex]
            ELSE LET kex == SetKeyPair(privKeyStr, pubKeyStr) IN
              IF /\ (Len(kex.priv) # X25519KeyLen \/ Len(kex.pub) # X25519KeyLen)
                 /\ lib = "throws"
                THEN [status |-> "throws", kex |-> NoKex]
                ELSE [status |-> "ok", kex |-> kex]
  ELSE [status |-> "null", kex |-> NoKex]

\* setupDecrypterFromInputs: the decrypter, or none ("null"), or an
\* exception that createKeyExchange let through
SetupDecrypterFromInputs(configs, file, lib) ==
  IF ~configs.readable THEN [status |-> "null", decrypter |-> NoDecrypter]
  ELSE IF ~configs.parses THEN [status |-> "null", decrypter |-> NoDecrypter]
  ELSE LET gotConfig == ParsedConfigs(configs)[1]
           kemId == configs.kem
           kexWithPrivateKey == CreateKeyExchange(kemId, file, lib) IN
    IF kexWithPrivateKey.status = "ok"
      THEN [status |-> "ok",
            decrypter |-> AddDecryptionConfig(NewDecrypter, gotConfig,
                                              kexWithPrivateKey.kex)]
      ELSE [status |-> kexWithPrivateKey.status, decrypter |-> NoDecrypter]

\* does setupDecrypterFromInputs get as far as reading the key file
ReadsKeyFile(configs) ==
  configs.readable /\ configs.parses /\ configs.kem \in SupportedKEMs

\* mutant: the two ECH options are not checked against each other
EchArgsMismatchIgnored(c) == FALSE

\* exactly one of -echconfigs and -echprivatekey was given
EchArgsMismatch(c) ==
  (~c.echconfigs /\ c.echprivatekey) \/ (c.echconfigs /\ ~c.echprivatekey)

\* mutant: a missing decrypter is not noticed
DecrypterMissingIgnored(r) == FALSE

\* `if (!decrypter)`
DecrypterMissing(r) == r.status = "null"

\* make_shared<FizzServerContext>()
NewServerContext ==
  [decrypter |-> NoDecrypter, certs |-> <<>>, verifier |-> FALSE,
   fallback |-> FALSE]

\* the context as the acceptor's transports see it
AcceptorCtx(sc) ==
  [set |-> TRUE, fallback |-> sc.fallback, ech |-> sc.decrypter.set]

\* CertUtils::getKeyType: the key's type when it is one of KeyType's, an
\* error otherwise
GetKeyType(k) == [ok |-> k \in KeyTypes, type |-> k]

\* an empty unique_ptr<SelfCert>
NullCert == [impl |-> "null", keyType |-> "none"]

\* the certificate made from the -cert/-key files, and the self-signed one
FileCert == [impl |-> "SelfCertImpl", keyType |-> "file"]
SelfSignedCert == [impl |-> "SelfCertImpl", keyType |-> "P256"]

\* the switch over the key type: one SelfDelegatedCredentialImpl per
\* KeyType; cert stays null when no case matches
SelectCredential(keyType) ==
  IF keyType \in {"RSA", "P256", "P384", "P521", "ED25519"}
    THEN [impl |-> "SelfDelegatedCredentialImpl", keyType |-> keyType]
    ELSE NullCert

\* mutant: the handler logs the error and startup goes on
CredentialErrorSwallowed == FALSE

\* the catch handler of the credential block ends with `return 1`
CredentialErrorReturns == TRUE

\* certManager->addCert(cert, true)
AddCert(certs, cert) == Append(certs, cert)

\* the certificate block: what the certificate manager holds afterwards, or
\* `return 1`.  c: the options; e: what the files held ("unseen": not read)
LoadCertificate(c, e) ==
  IF ~c.cert
    THEN [status |-> "ok", certs |-> AddCert(<<>>, SelfSignedCert)]
  ELSE IF e.cert = "unreadable" THEN [status |-> "return1", certs |-> <<>>]
  ELSE IF e.key = "unreadable" THEN [status |-> "return1", certs |-> <<>>]
  ELSE IF ~c.cred
    THEN [status |-> "ok", certs |-> AddCert(<<>>, FileCert)]
  ELSE IF e.cred = "unreadable" THEN [status |-> "return1", certs |-> <<>>]
  ELSE LET thrown == e.cred = "malformed" \/ ~GetKeyType(e.keyType).ok
           cert == IF thrown THEN NullCert
                   ELSE SelectCredential(GetKeyType(e.keyType).type)
       IN IF thrown /\ CredentialErrorReturns
            THEN [status |-> "return1", certs |-> <<>>]
            ELSE [status |-> "ok", certs |-> AddCert(<<>>, cert)]

\* the command line that gives no more than the flags ask for, what its
\* files hold and the context startup builds from it
PlainCmd(a) ==
  [cert |-> a.fallback, key |-> a.fallback, cred |-> FALSE,
   requestcert |-> FALSE, ca |-> FALSE, echconfigs |-> FALSE,
   echprivatekey |-> FALSE]
PlainEnv(a) ==
  [NoEnv EXCEPT !.parse = "ok",
                !.cert = IF a.fallback THEN "ok" ELSE "unseen",
                !.key = IF a.fallback THEN "ok" ELSE "unseen"]
PlainContext(a) ==
  [decrypter |-> IF a.ech THEN SetupDefaultDecrypter ELSE NoDecrypter,
   certs |-> <<IF a.fallback THEN FileCert ELSE SelfSignedCert>>,
   verifier |-> FALSE, fallback |-> a.fallback]

\* what the startup steps leave alone
acceptorVars == <<loop_, ctx_, sslCtx_>>
runVars == <<evb, http_, keyLogger_, socket_, cb_, inputHandler_, handlerVars,
             envVars, last>>

\* `return 1`, and an exception that leaves fizzServerCommand
Return1 == pc' = "returned" /\ rc' = "1"
Throws == pc' = "threw" /\ rc' = rc

\* fizzServerCommand is entered: nothing is built yet
StartupInit ==
  /\ args \in Args
  /\ cmd \in Cmds
  /\ env = NoEnv
  /\ serverContext = NewServerContext
  /\ rc = "none"
  /\ pc = "start"
  /\ evb = "idle"
  /\ loop_ = FALSE
  /\ http_ = FALSE
  /\ keyLogger_ = FALSE
  /\ ctx_ = NullCtx
  /\ sslCtx_ = FALSE
  /\ socket_ = "unopened"
  /\ cb_ = NullCb
  /\ inputHandler_ = FALSE
  /\ transport_ = NullTransport
  /\ sslSocket_ = NullSslSocket
  /\ connected_ = FALSE
  /\ secrets = NoSecrets
  /\ requestBuf_ = <<>>
  /\ keyLog = <<>>
  /\ arrived = <<>>
  /\ arrivals = <<>>
  /\ nextConn = 0
  /\ events = NoEvents
  /\ doneCalls = [c \in ConnIds |-> 0]
  /\ last = Step("start", 0)

\* parseArguments: it reports a failure, or a handler throws; both return 1
parseArguments ==
  /\ pc = "start"
  /\ \E r \in {"ok", "failed", "throws"} :
       /\ env' = [env EXCEPT !.parse = r]
       /\ IF r = "ok" THEN pc' = "parsed" /\ rc' = rc ELSE Return1
  /\ UNCHANGED <<args, cmd, serverContext, acceptorVars, runVars>>

\* the sanity checks of the certificate options
sanityCheck ==
  /\ pc = "parsed"
  /\ IF cmd.cert # cmd.key THEN Return1
     ELSE IF cmd.cred /\ (~cmd.cert \/ ~cmd.key) THEN Return1
     ELSE pc' = "checked" /\ rc' = rc
  /\ UNCHANGED <<args, cmd, env, serverContext, acceptorVars, runVars>>

\* the client-certificate verifier: the CA store is loaded only when client
\* authentication was asked for and a CA file or path was given
setupVerifier ==
  /\ pc = "checked"
  /\ IF cmd.requestcert /\ cmd.ca
       THEN \E loaded \in BOOLEAN :
              /\ env' = [env EXCEPT !.ca = IF loaded THEN "ok" ELSE "failed"]
              /\ IF loaded THEN pc' = "verifier" /\ rc' = rc ELSE Return1
       ELSE pc' = "verifier" /\ rc' = rc /\ env' = env
  /\ UNCHANGED <<args, cmd, serverContext, acceptorVars, runVars>>

\* the server context is made and ECH is set up: the default decrypter
\* under -ech, the check of the two ECH options, the decrypter from the
\* given files; then ciphers, client authentication and the verifier
setupEch ==
  /\ pc = "verifier"
  /\ LET ctx0 == [NewServerContext EXCEPT
                    !.decrypter =
                       IF args.ech
                         THEN SetECHDecrypter(@, SetupDefaultDecrypter)
                         ELSE @]
         ctx1(d) == [ctx0 EXCEPT !.decrypter = SetECHDecrypter(@, d),
                                 !.verifier = cmd.requestcert]
         ctx2 == [ctx0 EXCEPT !.verifier = cmd.requestcert]
     IN IF EchArgsMismatch(cmd)
          THEN serverContext' = ctx0 /\ env' = env /\ Return1
        ELSE IF ~cmd.echconfigs
          THEN /\ serverContext' = ctx2
               /\ env' = env /\ pc' = "ech" /\ rc' = rc
        ELSE \E configs \in EchConfigFiles :
          \E file \in IF ReadsKeyFile(configs) THEN EchKeyFiles ELSE {NoFile} :
           \E lib \in IF file.seen THEN {"accepts", "throws"} ELSE {"unseen"} :
             LET r == SetupDecrypterFromInputs(configs, file, lib) IN
               /\ env' = [env EXCEPT !.echConfigs = configs, !.echKey = file,
                                     !.lib = lib]
               /\ IF r.status = "throws"
                    THEN serverContext' = ctx0 /\ Throws
                  ELSE IF DecrypterMissing(r)
                    THEN serverContext' = ctx0 /\ Return1
                  ELSE /\ serverContext' = ctx1(r.decrypter)
                       /\ pc' = "ech" /\ rc' = rc
  /\ UNCHANGED <<args, cmd, acceptorVars, runVars>>

\* the certificate block, with the files it reads
loadCertificate ==
  /\ pc = "ech"
  /\ \E cert \in IF cmd.cert THEN {"unreadable", "ok"} ELSE {"unseen"} :
      \E key \in IF cert = "ok" THEN {"unreadable", "ok"} ELSE {"unseen"} :
       \E cred \in IF key = "ok" /\ cmd.cred
                     THEN {"unreadable", "malformed", "ok"} ELSE {"unseen"} :
        \E keyType \in IF cred = "ok" THEN KeyTypes \cup {OtherKeyType}
                        ELSE {"unseen"} :
          LET e == [env EXCEPT !.cert = cert, !.key = key, !.cred = cred,
                               !.keyType = keyType]
              r == LoadCertificate(cmd, e)
          IN /\ env' = e
             /\ IF r.status = "return1"
                  THEN serverContext' = serverContext /\ Return1
                  ELSE /\ serverContext' = [serverContext EXCEPT !.certs = r.certs]
                       /\ pc' = "cert" /\ rc' = rc
  /\ UNCHANGED <<args, cmd, acceptorVars, runVars>>

\* the legacy context: -fallback needs the certificate files
setupFallback ==
  /\ pc = "cert"
  /\ IF args.fallback /\ ~cmd.cert
       THEN serverContext' = serverContext /\ Return1
       ELSE /\ serverContext' = [serverContext EXCEPT !.fallback = args.fallback]
            /\ pc' = "fallback" /\ rc' = rc
  /\ UNCHANGED <<args, cmd, env, acceptorVars, runVars>>

\* FizzServerAcceptor acceptor(port, serverContext, loop, &evb, sslContext)
constructAcceptor ==
  /\ pc = "fallback"
  /\ pc' = "constructed"
  /\ loop_' = args.loop
  /\ ctx_' = AcceptorCtx(serverContext)
  /\ sslCtx_' = SslContext(args)
  /\ socket_' = "accepting"
  /\ last' = Step("construct", 0)
  /\ UNCHANGED <<args, startupVars, rc, evb, http_, keyLogger_, cb_,
                 inputHandler_, handlerVars, envVars>>

\* ------------------------------------------------------------ specification
\* the state after FizzServerAcceptor's constructor has run
Init ==
  /\ args \in Args
  /\ pc = "constructed"
  /\ evb = "idle"
  /\ loop_ = args.loop
  /\ http_ = FALSE
  /\ keyLogger_ = FALSE
  /\ ctx_ = ServerContext(args)
  /\ sslCtx_ = SslContext(args)
  /\ socket_ = "accepting"
  /\ cb_ = NullCb
  /\ inputHandler_ = FALSE
  /\ transport_ = NullTransport
  /\ sslSocket_ = NullSslSocket
  /\ connected_ = FALSE
  /\ secrets = NoSecrets
  /\ requestBuf_ = <<>>
  /\ keyLog = <<>>
  /\ arrived = <<>>
  /\ arrivals = <<>>
  /\ nextConn = 0
  /\ events = NoEvents
  /\ doneCalls = [c \in ConnIds |-> 0]
  /\ last = Step("construct", 0)
  /\ cmd = PlainCmd(args)
  /\ env = PlainEnv(args)
  /\ serverContext = PlainContext(args)
  /\ rc = "none"

Next ==
  \/ setKeyLogWriter
  \/ setHttpEnabled
  \/ evbLoop
  \/ evbLoopReturns
  \/ connectionAccepted
  \/ acceptError
  \/ fizzHandshakeSuccess
  \/ fizzHandshakeError
  \/ fizzHandshakeAttemptFallback
  \/ handshakeSuc
  \/ handshakeErr
  \/ secretAvailable
  \/ readBufferAvailable
  \/ httpReadBufferAvailable
  \/ readEOF
  \/ readErr
  \/ close
  \/ write

Spec == Init /\ [][Next]_vars

\* fizzServerCommand from its entry to evb.loop()
StartupNext ==
  \/ parseArguments
  \/ sanityCheck
  \/ setupVerifier
  \/ setupEch
  \/ loadCertificate
  \/ setupFallback
  \/ constructAcceptor
  \/ setKeyLogWriter
  \/ setHttpEnabled
  \/ evbLoop

StartupSpec == StartupInit /\ [][StartupNext]_vars

\* ------------------------------------------------------------------ claims
\* the config and the key exchange a decrypter tries first
DecrypterConfig(d) == IF d.params = <<>> THEN "none" ELSE d.params[1].config
DecrypterKex(d) == IF d.params = <<>> THEN NoKex ELSE d.params[1].kex

\* C1: in every reachable state at most one of the two transport slots
\* (native transport_, legacy sslSocket_) of the handler is populated.
C1_SlotsExclusive == ~(transport_.present /\ sslSocket_.present)

\* C1 witness: a fallback has just moved the connection to the legacy slot.
C1_Witness ==
  /\ last.op = "fizzHandshakeAttemptFallback"
  /\ sslSocket_.present /\ ~transport_.present

\* C2: while a handler is active accepting is paused, so no connection is
\* accepted meanwhile, and connectionAccepted never replaces a live handler.
C2_OneActiveHandler ==
  /\ cb_.present => socket_ = "paused" /\ ~ENABLED connectionAccepted
  /\ last.op = "connectionAccepted" => ~last.replaced

\* C2 witness: the second connection of a looping server is being handled.
C2_Witness == cb_.present /\ nextConn = 2 /\ connected_

\* C3: in single-shot mode, once the first connection is closed the
\* listening socket is released and the loop can only return; no second
\* connection is ever accepted.
C3_SingleShot ==
  ~loop_ =>
    /\ nextConn <= 1
    /\ doneCalls[1] > 0 =>
         /\ socket_ = "released" /\ ~cb_.present
         /\ ~ENABLED connectionAccepted
         /\ evb = "exited" \/ ENABLED evbLoopReturns

\* C3 witness: a single-shot server whose only connection closed has left
\* the loop.
C3_Witness == ~loop_ /\ doneCalls[1] = 1 /\ evb = "exited" /\ nextConn = 1

\* C4: in loop mode the acceptor is accepting again whenever no handler is
\* active, the next connection can be accepted, and every accepted
\* connection gets a fresh handler over the same shared contexts.
C4_LoopRearms ==
  loop_ =>
    /\ (~cb_.present /\ pc = "loop") => socket_ = "accepting"
    /\ (~cb_.present /\ evb = "running" /\ nextConn < MaxConns)
         => ENABLED connectionAccepted
    /\ last.op = "connectionAccepted" =>
         /\ cb_.present /\ cb_.conn = nextConn
         /\ transport_.present /\ transport_.hs = "handshaking"
         /\ transport_.fd = FdOf(nextConn)
         /\ ~sslSocket_.present /\ ~connected_
         /\ secrets = NoSecrets /\ requestBuf_ = <<>>
    /\ transport_.present => transport_.ctx = ServerContext(args)
    /\ sslSocket_.present => sslSocket_.ctx = SslContext(args)

\* C4 witness: after the first connection closed, a second one has been
\* accepted and has completed its handshake.
C4_Witness ==
  /\ loop_ /\ doneCalls[1] = 1 /\ nextConn = 2
  /\ transport_.present /\ transport_.hs = "established"

ClosePaths == {"close", "readEOF", "readErr", "fizzHandshakeError",
               "handshakeErr"}

\* C5: every close path, in its own step, empties both slots, force-closes
\* the native transport exactly when it was the populated one and calls
\* done() once; a finish() that finds both slots empty calls nothing, so no
\* connection ever has done() called twice.
C5_ClosePaths ==
  /\ \A c \in ConnIds : doneCalls[c] <= 1
  /\ last.done <= 1
  /\ last.op \in ClosePaths =>
       /\ last.done = 1
       /\ ~last.nativeAtDone /\ ~last.legacyAtDone
       /\ last.closeNow = last.hadNative
       /\ ~cb_.present /\ ~transport_.present /\ ~sslSocket_.present
       /\ doneCalls[last.conn] = 1

\* C5 witness: an explicit close() of a native connection during which the
\* closing transport called finish() a second time.
C5_Witness ==
  /\ last.op = "close" /\ last.noop = 1 /\ last.closeNow
  /\ doneCalls[last.conn] = 1

\* C6: right after a fallback request exactly the legacy slot is populated,
\* over the descriptor the native transport held; the connection is not
\* connected and done() has not been called for it.
C6_AfterFallback ==
  last.op = "fizzHandshakeAttemptFallback" =>
    /\ sslSocket_.present /\ ~transport_.present
    /\ sslSocket_.fd = FdOf(cb_.conn)
    /\ sslSocket_.hs = "handshaking"
    /\ ~connected_
    /\ cb_.present /\ socket_ = "paused"
    /\ doneCalls[cb_.conn] = 0

\* C6 witness: the second connection of a looping server has fallen back.
C6_Witness ==
  /\ last.op = "fizzHandshakeAttemptFallback" /\ cb_.conn = 2
  /\ sslSocket_.fd = FdOf(2)

\* C7 (as claimed): the key log holds at most one line per connection
\* (client random) and label.
C7_AtMostOneLine ==
  \A i, j \in 1..Len(keyLog) :
    (keyLog[i].random = keyLog[j].random /\ keyLog[i].label = keyLog[j].label)
      => i = j

\* C8 (as claimed): with a key-log writer set, every secret event delivered
\* so far has its line in the key log - it was forwarded when it arrived.
C8_ForwardedAtEvent ==
  keyLogger_ =>
    \A i \in 1..Len(arrived) :
      \E j \in 1..Len(keyLog) :
        /\ keyLog[j].random = arrived[i].random
        /\ keyLog[j].secret = arrived[i].secret

\* C9 (as claimed): once the handshake has succeeded the key-log lines of
\* the connection are its captured secrets, one line each, in the order the
\* secret events arrived.
C9_ArrivalOrder ==
  (keyLogger_ /\ last.op = "fizzHandshakeSuccess") =>
    LET Mine(e) == e.random = transport_.random
        Captured(e) == Mine(e) /\ secrets[e.label] = e.secret
        cap == SelectSeq(arrived, Captured)
        lines == SelectSeq(keyLog, Mine)
    IN /\ Len(lines) = Len(cap)
       /\ \A i \in 1..Len(lines) : lines[i].secret = cap[i].secret

\* the bytes of a sequence of buffers, in order
RECURSIVE Flatten(_)
Flatten(cs) == IF cs = <<>> THEN <<>> ELSE Head(cs) \o Flatten(Tail(cs))

\* C10: the HTTP probe compares nothing and answers nothing while fewer
\* than 5 bytes are buffered; the test is made on the concatenation of all
\* buffers in arrival order, and answers exactly when that starts "GET /".
C10_SplitRequest ==
  /\ last.op = "httpReadBufferAvailable" =>
       LET all == Flatten(last.chunks) IN
         /\ last.req = all
         /\ last.compared = (Len(all) >= PrefixLen)
         /\ last.matched = (/\ Len(all) >= PrefixLen
                             /\ SubSeq(all, 1, PrefixLen) = GetPrefix)
         /\ (last.wrote # "none") = last.matched
  /\ (cb_.present /\ Len(requestBuf_) < PrefixLen) => events.responses = 0

\* C10 witness: "GE" then "T / HTTP/1.1\r\n" is answered on the second
\* arrival.
C10_Witness ==
  /\ last.op = "httpReadBufferAvailable"
  /\ last.chunks = <<ChunkGE, ChunkRest>>
  /\ last.matched /\ last.wrote = "native"

C12_Mismatch ==
  (/\ last.op = "httpReadBufferAvailable"
   /\ Len(last.req) >= PrefixLen
   /\ SubSeq(last.req, 1, PrefixLen) # GetPrefix) =>
    /\ last.compared /\ ~last.matched
    /\ events.mismatches >= 1
    /\ last.wrote = "none" /\ last.closed = "none" /\ last.summary = "none"
    /\ last.done = 0 /\ ~last.closeNow
    /\ events.responses = 0 /\ events.closes = 0
    /\ cb_.present /\ cb_.conn = last.conn /\ socket_ = "paused"
    /\ doneCalls[last.conn] = 0
    /\ ReadReady /\ connected_
    /\ requestBuf_ = last.req
    /\ (events.reads + events.secretEvents < MaxInputs)
         => ENABLED httpReadBufferAvailable

\* C12 witness: "GE" then "get /x" leaves a rejected request buffered on an
\* open connection that can still receive.
C12_Witness ==
  /\ last.op = "httpReadBufferAvailable"
  /\ last.chunks = <<ChunkGE, <<"g", "e", "t", " ", "/", "x">> >>
  /\ ~last.matched /\ cb_.present
  /\ events.reads + events.secretEvents < MaxInputs

\* C13: with a delegated credential whose private key is of no supported
\* type, startup returns 1 at the certificate block and the certificate
\* manager got nothing; no null signer is ever added, and a delegated
\* credential is always one of the five implementations.
C13_UnsupportedKeyType ==
  /\ (cmd.cred /\ env.keyType = OtherKeyType) =>
       /\ pc = "returned" /\ rc = "1"
       /\ serverContext.certs = <<>>
       /\ socket_ = "unopened"
  /\ \A i \in 1..Len(serverContext.certs) :
       /\ serverContext.certs[i] # NullCert
       /\ serverContext.certs[i].impl = "SelfDelegatedCredentialImpl"
            => serverContext.certs[i].keyType \in KeyTypes

\* C13 witness: the credential file was read and parsed, the key is a DSA
\* key, and startup has returned.
C13_Witness ==
  /\ cmd.cred /\ env.cred = "ok" /\ env.keyType = OtherKeyType
  /\ pc = "returned"

\* C14: when the ECH configs file was unreadable or unparseable, or its
\* first config names a KEM id outside the four supported ones, startup has
\* returned 1 with no acceptor, and the context holds no decrypter from the
\* files (only the default one of -ech, if that was given); a decrypter
\* made from the files always has its key exchange.
C14_NoDecrypter ==
  /\ (/\ env.echConfigs.seen
      /\ \/ ~env.echConfigs.readable
         \/ ~env.echConfigs.parses
         \/ env.echConfigs.kem \notin SupportedKEMs) =>
       /\ pc = "returned" /\ rc = "1"
       /\ socket_ = "unopened" /\ ctx_ = NullCtx /\ evb = "idle"
       /\ ~env.echKey.seen
       /\ serverContext.decrypter =
            (IF args.ech THEN SetupDefaultDecrypter ELSE NoDecrypter)
  /\ DecrypterConfig(serverContext.decrypter) \notin {"none", "default"} =>
       /\ serverContext.decrypter.set
       /\ DecrypterKex(serverContext.decrypter).kind # "none"
       /\ DecrypterConfig(serverContext.decrypter) = env.echConfigs.kem

\* C14 witness: -ech was given together with a configs file whose first
\* config names x448; startup has returned.
C14_Witness ==
  /\ args.ech /\ env.echConfigs.parses /\ env.echConfigs.kem = "x448"
  /\ pc = "returned"

\* C15 (as claimed): once the ECH private-key file was found unreadable,
\* startup does not go on (it has returned or thrown, and no acceptor is
\* built), and no installed decrypter has a key exchange without a private
\* key.
C15_KeyFileUnreadable ==
  /\ (env.echKey.seen /\ ~env.echKey.readable) =>
       /\ pc \in {"returned", "threw"}
       /\ socket_ = "unopened"
  /\ serverContext.decrypter.set => DecrypterKex(serverContext.decrypter).hasKey

\* the first two tokens of the x25519 key file are hex strings of the
\* length of a key (64 digits), and the decrypter was built from them
X25519FromHexFile ==
  /\ DecrypterConfig(serverContext.decrypter) = "x25519"
  /\ Len(env.echKey.toks) >= 2
  /\ \A i \in {1, 2} :
       /\ UnhexlifyOk(env.echKey.toks[i])
       /\ Len(env.echKey.toks[i]) = Len(DefaultPublicKeyHex)

\* C16 (as claimed): hex-encoding the public key of the key exchange gives
\* the second line of the file exactly.
C16_PublicKeyIsSecondLine ==
  X25519FromHexFile =>
    Hexlify(DecrypterKex(serverContext.decrypter).pub) = env.echKey.toks[2]

\* C16 (amended): the key pair is taken positionally - private key the
\* bytes of the first line, public key the bytes of the second, never those
\* of the first when the lines differ - and hex-encoding the public key
\* gives the second line with its letters in lower case.
C16_Positional ==
  X25519FromHexFile =>
    LET kex == DecrypterKex(serverContext.decrypter)
        line1 == env.echKey.toks[1]
        line2 == env.echKey.toks[2]
    IN /\ kex.priv = Unhexlify(line1)
       /\ kex.pub = Unhexlify(line2)
       /\ Unhexlify(line1) # Unhexlify(line2) => kex.pub # Unhexlify(line1)
       /\ Hexlify(kex.pub) = ToLower(line2)
       /\ line2 = ToLower(line2) => Hexlify(kex.pub) = line2

\* C16 witness: a decrypter built from a key file written in upper-case hex.
C16_Witness ==
  /\ X25519FromHexFile
  /\ env.echKey.toks[2] = ToUpper(DefaultPublicKeyHex)
  /\ env.echKey.toks[2] # DefaultPublicKeyHex
  /\ pc = "ech"

\* C17: an accept error is logged; without -loop it asks the event loop to
\* terminate, which can then only return; with -loop the loop keeps
\* running and the acceptor is as before: socket held and accepting, no
\* handler touched, the next connection can be accepted.
C17_AcceptError ==
  last.op = "acceptError" =>
    /\ last.logged
    /\ ~loop_ => /\ evb = "terminating"
                 /\ ENABLED evbLoopReturns
    /\ loop_ => /\ evb = "running"
                /\ socket_ = "accepting"
                /\ cb_ = NullCb /\ ~inputHandler_
                /\ ~transport_.present /\ ~sslSocket_.present
                /\ nextConn < MaxConns => ENABLED connectionAccepted

\* C17 witness: a looping server has an accept error after its first
\* connection has closed.
C17_Witness ==
  /\ last.op = "acceptError" /\ loop_
  /\ nextConn = 1 /\ doneCalls[1] = 1

\* the per-connection errors
ErrorPaths == {"fizzHandshakeError", "handshakeErr", "readErr"}

\* C18 (as claimed): after a per-connection error the listening socket is
\* still held and a further connection can be accepted.
C18_AcceptorSurvives ==
  last.op \in ErrorPaths =>
    /\ socket_ = "accepting"
    /\ (evb = "running" /\ nextConn < MaxConns) => ENABLED connectionAccepted

\* C18 (amended): with -loop, after a per-connection error the loop is
\* running, the listening socket is held and accepting and a further
\* connection can be accepted; without -loop the error ends the server's
\* only connection like any close: the socket is released and the loop can
\* only return.
C18_LoopSurvives ==
  last.op \in ErrorPaths =>
    /\ last.done = 1 /\ ~cb_.present
    /\ loop_ => /\ evb = "running"
                /\ socket_ = "accepting"
                /\ nextConn < MaxConns => ENABLED connectionAccepted
    /\ ~loop_ => /\ socket_ = "released"
                 /\ ~ENABLED connectionAccepted
                 /\ ENABLED evbLoopReturns

\* C18 witness: the legacy handshake of a looping server's first connection
\* has failed and the server is accepting again.
C18_Witness ==
  /\ last.op = "handshakeErr" /\ loop_ /\ last.conn = 1
  /\ socket_ = "accepting" /\ ENABLED connectionAccepted

\* the startup failures: what the command line or the environment has shown
\* so far is one of the failures startup must end on
ArgumentFailure ==
  \/ env.parse \in {"failed", "throws"}
  \/ cmd.cert # cmd.key
  \/ cmd.cred /\ ~(cmd.cert /\ cmd.key)
  \/ args.fallback /\ ~cmd.cert
FileFailure ==
  \/ env.ca = "failed"
  \/ env.cert = "unreadable" \/ env.key = "unreadable"
  \/ env.cred \in {"unreadable", "malformed"}
EchFailure ==
  \/ cmd.echconfigs # cmd.echprivatekey
  \/ env.echConfigs.seen /\ ~(env.echConfigs.readable /\ env.echConfigs.parses)
  \/ env.echConfigs.seen /\ env.echConfigs.kem \notin SupportedKEMs
  \/ env.echKey.seen /\ ~env.echKey.readable

\* startup has not got as far as the acceptor, and if it is over it
\* returned 1
NoAcceptor ==
  /\ pc \in {"start", "parsed", "checked", "verifier", "ech", "cert",
             "fallback", "returned"}
  /\ socket_ = "unopened" /\ ctx_ = NullCtx /\ evb = "idle"
  /\ pc = "returned" <=> rc = "1"
  /\ rc \in {"none", "1"}

\* C19 (as claimed): whenever one of the startup failures has shown, no
\* acceptor is or will be constructed, no socket is open, the loop does not
\* run, and fizzServerCommand returns, if it has, a non-zero code.
C19_StartupFailure ==
  (ArgumentFailure \/ FileFailure \/ EchFailure) => NoAcceptor

\* C20: when exactly one of -echconfigs and -echprivatekey was given,
\* startup never gets past the ECH check, with or without -ech: it reads no
\* ECH file, constructs no acceptor and returns 1.
C20_EchBothOrNeither ==
  cmd.echconfigs # cmd.echprivatekey =>
    /\ pc \in {"start", "parsed", "checked", "verifier", "returned"}
    /\ socket_ = "unopened" /\ ctx_ = NullCtx /\ evb = "idle"
    /\ pc = "returned" <=> rc = "1"
    /\ ~env.echConfigs.seen /\ ~env.echKey.seen
    /\ serverContext.decrypter \in {NoDecrypter, SetupDefaultDecrypter}
    /\ pc = "verifier" => ENABLED setupEch

\* C20 witness: -ech and -echconfigs without -echprivatekey: startup has
\* returned at the ECH check, after the default decrypter was set.
C20_Witness ==
  /\ args.ech /\ cmd.echconfigs /\ ~cmd.echprivatekey
  /\ env.parse = "ok" /\ pc = "returned" /\ rc = "1"
  /\ serverContext.decrypter = SetupDefaultDecrypter

\* C21: handling connections never modifies the process-wide configuration.
\* Once the event loop has been entered, whatever accepts, handshake
\* outcomes, fallbacks, reads and done() calls have happened, the acceptor's
\* server context, legacy SSL context, loop flag, http flag and key-log
\* writer are the ones the start-up installed, and the connection at hand
\* (its transport, its legacy socket, its handler kind) is built from them.
C21_ConfigUntouched ==
  (pc \in {"loop", "returned"}) =>
    /\ ctx_ = ServerContext(args)
    /\ sslCtx_ = SslContext(args)
    /\ loop_ = args.loop
    /\ http_ = args.http
    /\ keyLogger_ = args.keylog
    /\ transport_.present => transport_.ctx = ServerContext(args)
    /\ sslSocket_.present => sslSocket_.ctx = SslContext(args)
    /\ cb_.present => cb_.kind = (IF args.http THEN "http" ELSE "example")

\* a looping server's second connection, after the first one was handed
\* back with done(), has fallen back to the legacy socket
C21_Witness ==
  /\ args.loop
  /\ nextConn = 2
  /\ doneCalls[1] >= 1
  /\ sslSocket_.present
  /\ sslSocket_.ctx

\* the bytes of a list of lines
RECURSIVE SumLen(_)
SumLen(lines) == IF lines = <<>> THEN 0 ELSE Len(lines[1]) + SumLen(Tail(lines))

\* C22: every HTTP probe response is well formed.  Its Content-Length is the
\* byte count of its body; the body is the 'Fizz HTTP Server' header and the
\* native summary lines when the native slot was populated, the
\* 'Fizz HTTP Server (Fallback)' header and the legacy summary lines when the
\* legacy slot was; the response is written to that slot and that slot is
\* closed.
C22_ResponseWellFormed ==
  (last.op = "httpReadBufferAvailable" /\ last.matched) =>
    LET r == last.response
        header == IF last.pre.native THEN NativeHeader ELSE FallbackHeader
        slot == IF last.pre.native THEN "native" ELSE "legacy"
    IN /\ last.pre.native \/ last.pre.legacy
       /\ r.status = "HTTP/1.0 200 OK"
       /\ r.contentLength =
            Len(header) + SumLen(last.text) + (Len(last.text) - 1)
       /\ r.body = header \o Join("\n", last.text)
       /\ Len(last.text) = (IF last.pre.native THEN 25 ELSE 5)
       /\ last.summary = slot
       /\ last.wrote = slot
       /\ last.closed = slot

\* a probe answered over the legacy socket, and the response has a body
\* longer than its header
C22_Witness ==
  /\ last.op = "httpReadBufferAvailable"
  /\ last.matched
  /\ last.pre.legacy
  /\ last.response.contentLength > Len(FallbackHeader)

\* C23: the fallback does its steps in order.  The socket is detached from
\* the native transport while the transport still holds it; the transport is
\* discarded after that; the legacy handshake object is created over the
\* detached descriptor once the transport is gone; the buffered client hello
\* is put into it as pre-received input; only then is the legacy handshake
\* started.  No legacy handshake runs without the replayed client hello.
C23_FallbackOrder ==
  /\ (last.op = "fizzHandshakeAttemptFallback") =>
       LET tr == last.trace IN
         /\ Len(tr) = 5
         /\ tr[1].stmt = "detachNetworkSocket" /\ tr[1].attached
         /\ tr[2].stmt = "reset"
         /\ tr[2].native /\ ~tr[2].attached /\ tr[2].fd = FdOf(last.conn)
         /\ tr[3].stmt = "AsyncSSLSocket"
         /\ ~tr[3].native /\ ~tr[3].legacy /\ tr[3].fd = FdOf(last.conn)
         /\ tr[4].stmt = "setPreReceivedData"
         /\ tr[4].legacy /\ tr[4].hello /\ ~tr[4].started
         /\ tr[5].stmt = "sslAccept"
         /\ tr[5].legacy /\ tr[5].preReceived /\ ~tr[5].started
  /\ (sslSocket_.present /\ sslSocket_.hs # "none") => sslSocket_.preReceived

\* a fallback has just run and the legacy handshake is under way
C23_Witness ==
  /\ last.op = "fizzHandshakeAttemptFallback"
  /\ Len(last.trace) = 5
  /\ sslSocket_.hs = "handshaking"
  /\ sslSocket_.fd = FdOf(last.conn)

\* the handler of this state is still the handler in the next one
SameHandler == cb_.present /\ cb_'.present /\ cb_'.conn = cb_.conn

\* C24: connected() is false from the handler's construction until a
\* handshake-success event and true from then on.  A handler whose handshake
\* is still running, natively or through the fallback, is not connected; one
\* whose handshake succeeded is; a handshake error leaves nothing connected;
\* no step of a live handler takes connected_ from true to false; and at each
\* success event the handler is the read callback of the transport that
\* succeeded.
C24_Connected ==
  /\ [](/\ cb_.present =>
            (connected_ <=>
               \/ transport_.present /\ transport_.hs = "established"
               \/ sslSocket_.present /\ sslSocket_.hs = "established")
        /\ (last.op \in {"connectionAccepted", "fizzHandshakeAttemptFallback",
                         "fizzHandshakeError", "handshakeErr"}) => ~connected_
        /\ (last.op = "fizzHandshakeSuccess") =>
             connected_ /\ transport_.present /\ transport_.readCB
        /\ (last.op = "handshakeSuc") =>
             connected_ /\ sslSocket_.present /\ sslSocket_.readCB)
  /\ [][(SameHandler /\ connected_) => connected_']_vars

\* a handler that became connected natively has since taken another step and
\* is still there
C24_Witness ==
  /\ cb_.present
  /\ connected_
  /\ transport_.present
  /\ last.conn = cb_.conn
  /\ last.op \notin {"fizzHandshakeSuccess", "handshakeSuc"}

\* C25: a summary is computed only from a populated slot.  The native summary
\* is computed only by a step that began with the native slot populated, the
\* legacy summary only by one that began with the legacy slot populated; an
\* HTTP GET after a fallback gets the legacy summary and does not touch the
\* empty native slot; and the HTTP write path never runs with both slots
\* empty.
C25_SummaryFromPopulatedSlot ==
  /\ (last.summary = "native") => last.pre.native
  /\ (last.summary = "legacy") => last.pre.legacy
  /\ (last.op = "httpReadBufferAvailable" /\ last.matched) =>
       /\ last.pre.native \/ last.pre.legacy
       /\ (~last.pre.native) =>
            /\ last.summary = "legacy"
            /\ last.wrote = "legacy"
            /\ Len(last.text) = 5
       /\ last.wrote \in {"native", "legacy"}

\* an HTTP GET answered after the connection fell back
C25_Witness ==
  /\ last.op = "httpReadBufferAvailable"
  /\ last.matched
  /\ ~last.pre.native
  /\ last.pre.legacy
  /\ last.summary = "legacy"
  /\ Len(last.text) = 5

\* C26: an HTTP mismatch is permanent.  The request buffer is never cleared:
\* once the bytes that arrived before a read number at least 5 and do not
\* start with "GET /", that read produces no response, writes and closes
\* nothing, and logs the mismatch again.
C26_MismatchPermanent ==
  (last.op = "httpReadBufferAvailable" /\ Len(last.chunks) >= 2) =>
    LET before == Flatten(SubSeq(last.chunks, 1, Len(last.chunks) - 1)) IN
      (Len(before) >= PrefixLen /\ SubSeq(before, 1, PrefixLen) # GetPrefix) =>
        /\ last.compared
        /\ ~last.matched
        /\ last.response = NoResponse
        /\ last.wrote = "none"
        /\ last.closed = "none"
        /\ events.mismatches >= 2
        /\ events.responses = 0
        /\ requestBuf_ = Flatten(last.chunks)

\* a request that did not start with "GET /" was followed by the bytes of a
\* well-formed one
C26_Witness ==
  /\ last.op = "httpReadBufferAvailable"
  /\ Len(last.chunks) = 2
  /\ last.chunks[1] = ChunkRest
  /\ last.chunks[2] = GetPrefix
  /\ events.mismatches = 2

\* the acceptor has been constructed
Constructed == pc \in {"constructed", "keylog", "http", "loop"}

\* C27: the fallback path is entered only when a legacy SSL context exists.
\* Version fallback is enabled in the acceptor's server context exactly when
\* -fallback was given; with -fallback and no explicit certificate the
\* start-up returns 1 and no acceptor is constructed; otherwise the legacy
\* SSL context exists when the acceptor is constructed, so that the fallback
\* of a connection accepted from it builds its legacy socket over a context
\* that is not null.
C27_FallbackHasSslContext ==
  /\ Constructed =>
       /\ ctx_.fallback <=> args.fallback
       /\ args.fallback => (cmd.cert /\ sslCtx_)
       /\ LET t == NewTransport(1, ctx_)
              f == RunFallback(FallbackOrder, FallbackEntry(t, NullSslSocket),
                               ShareSslCtx(sslCtx_), 1)
          IN t.ctx.fallback => (f.s.present /\ f.s.ctx)
  /\ (args.fallback /\ ~cmd.cert /\ pc \notin {"start", "parsed", "checked",
                                               "verifier", "ech", "cert",
                                               "threw"}) =>
       (pc = "returned" /\ rc = "1")

\* a server started with -fallback and explicit certificate files has its
\* acceptor, with fallback enabled and the legacy context in place
C27_Witness ==
  /\ pc = "constructed"
  /\ args.fallback
  /\ cmd.cert
  /\ ctx_.fallback
  /\ sslCtx_

\* C28: the last line of the native summary, the ECH indicator, is the
\* success sentence exactly when the server context holds an ECH decrypter
\* and empty otherwise, whether or not this client sent an encrypted hello.
C28_EchLineFromConfig ==
  (last.summary = "native") =>
    /\ Len(last.text) = 25
    /\ last.text[25] =
         (IF ctx_.ech THEN "Encrypted client hello (ECH) is successful."
                      ELSE "")
    /\ (last.text[25] # "") <=> ctx_.ech

\* a server with a decrypter reports success to a client that sent no
\* encrypted hello
C28_Witness ==
  /\ last.summary = "native"
  /\ ctx_.ech
  /\ ~ClientEch(last.conn)
  /\ last.text[25] # ""

\* C29: the acceptor accepts from its constructor on, but the http flag and
\* the key-log writer are set after it and before the event loop first runs.
\* No connection is accepted before the loop runs, and every accepted
\* connection, the first included, is handled with the final http mode and
\* key-log writer: its handler is the HTTP one exactly under -http, and its
\* secrets reach the key log exactly under -keylog.
C29_SettersBeforeLoop ==
  /\ (pc = "constructed") =>
       (socket_ = "accepting" /\ ~http_ /\ ~keyLogger_)
  /\ (pc \in {"constructed", "keylog", "http"}) =>
       (nextConn = 0 /\ ~cb_.present /\ evb = "idle")
  /\ (nextConn > 0) =>
       (http_ = args.http /\ keyLogger_ = args.keylog)
  /\ cb_.present =>
       cb_.kind = (IF args.http THEN "http" ELSE "example")
  /\ (last.op = "connectionAccepted") =>
       (cb_.kind = (IF args.http THEN "http" ELSE "example")
          /\ keyLogger_ = args.keylog)
  /\ (keyLog # <<>>) => args.keylog

\* the first connection of a server started with -http and -keylog is
\* accepted, and its handler is the HTTP one
C29_Witness ==
  /\ last.op = "connectionAccepted"
  /\ last.conn = 1
  /\ args.http
  /\ args.keylog
  /\ cb_.kind = "http"
  /\ keyLogger_

\* the start-up has got past its ECH block
PastEch ==
  pc \in {"ech", "cert", "fallback", "constructed", "keylog", "http", "loop"}

\* the key exchange createKeyExchange builds for a KEM id
KexKindFor(kemId) == IF kemId = "x25519" THEN "x25519" ELSE CurveOf(kemId)

\* C30: an installed ECH decrypter holds exactly one decryption config, paired
\* with one key exchange.  With -ech alone it is the built-in default config
\* with the built-in x25519 key pair; with -echconfigs and -echprivatekey it
\* is the first config of the file with the key exchange of that config's KEM
\* id; with both, the decrypter from the files has replaced the default one
\* and is not added to it.
C30_OneDecryptionConfig ==
  LET d == serverContext.decrypter IN
    /\ d.set => Len(d.params) = 1
    /\ ~d.set => d.params = <<>>
    /\ PastEch =>
         /\ d.set <=> (args.ech \/ cmd.echconfigs)
         /\ (args.ech /\ ~cmd.echconfigs) =>
              /\ d.params[1].config = "default"
              /\ d.params[1].kex.kind = "x25519"
              /\ d.params[1].kex.priv = Unhexlify(DefaultPrivateKeyHex)
              /\ d.params[1].kex.pub = Unhexlify(DefaultPublicKeyHex)
         /\ cmd.echconfigs =>
              /\ cmd.echprivatekey
              /\ env.echConfigs.kem \in SupportedKEMs
              /\ d.params[1].config = env.echConfigs.kem
              /\ d.params[1].kex.kind = KexKindFor(env.echConfigs.kem)

\* -ech was given together with a two-config file and a key file: the
\* decrypter holds the file's first config
C30_Witness ==
  /\ PastEch
  /\ args.ech
  /\ cmd.echconfigs
  /\ env.echConfigs.rest # <<>>
  /\ Len(serverContext.decrypter.params) = 1
  /\ serverContext.decrypter.params[1].config = env.echConfigs.kem

====
